---- MODULE Spec2Model ----
(***************************************************************************)
(* Model of dashapp.py: the two Dash callbacks load_grades and             *)
(* update_all_graphs over the SQLite table loans50k.                       *)
(*                                                                         *)
(* Text values (grades) are sequences of characters, so that the f-string  *)
(* interpolation of the grade into the query and SQLite's reading of the   *)
(* resulting text are modelled as what they do.  Date texts are tuples of  *)
(* their numeric fields (<<y, m, d>>); a text with no such fields is <<>>. *)
(***************************************************************************)
EXTENDS Integers, Sequences, FiniteSets, TLC

\* ------------------------------------------------------------------ bounds
MaxRows == 2          \* rows in loans50k
MaxGradeLen == 3      \* characters in a grade value sent by the client
MaxOpenConns == 1     \* connections left open before the process is stopped

\* ------------------------------------------------------------------ values
Chars == {"A", "'"}
None == <<"None">>                       \* Python None / "nothing selected"
NaT == <<>>                              \* pandas NaT
NaN == [null |-> TRUE, v |-> 0]          \* pandas NaN cell
Num(n) == [null |-> FALSE, v |-> n]      \* a numeric cell

Str(n) == UNION {[1..k -> Chars] : k \in 0..n}
SelectedGrades == Str(MaxGradeLen) \cup {None}
DummyInputs == {<<"A">>, None}

TableGrades == {<<"A">>, <<"A", "'">>}
\* Row shapes: same issue year twice with different amounts, another year,
\* unparsable text in either date column, charged off or not.
RowShapes ==
  { [loan_amnt |-> 500,  loan_status |-> "Fully Paid",  issue_d |-> <<2013, 6, 1>>, earliest_cr_line |-> <<2001, 1, 1>>],
    [loan_amnt |-> 1000, loan_status |-> "Fully Paid",  issue_d |-> <<2013, 9, 1>>, earliest_cr_line |-> <<2002, 1, 1>>],
    [loan_amnt |-> 1000, loan_status |-> "Charged Off", issue_d |-> <<2014, 1, 1>>, earliest_cr_line |-> <<2001, 5, 1>>],
    [loan_amnt |-> 500,  loan_status |-> "Charged Off", issue_d |-> <<2014, 2, 30>>, earliest_cr_line |-> <<>>],
    [loan_amnt |-> 500,  loan_status |-> "Fully Paid",  issue_d |-> <<>>,          earliest_cr_line |-> <<2002, 3, 1>>] }
LoanRows ==
  { [grade |-> g, loan_amnt |-> s.loan_amnt, int_rate |-> 10, loan_status |-> s.loan_status,
     purpose |-> "car", issue_d |-> s.issue_d, earliest_cr_line |-> s.earliest_cr_line]
    : g \in TableGrades, s \in RowShapes }
Tables == UNION {[1..k -> LoanRows] : k \in 0..MaxRows}

VARIABLES loans50k, tableExists, initialRows, openConns, call
vars == <<loans50k, tableExists, initialRows, openConns, call>>

\* ------------------------------------------------------------------ helpers
RECURSIVE SeqSum(_)
SeqSum(s) == IF s = <<>> THEN 0 ELSE Head(s) + SeqSum(Tail(s))

RECURSIVE SortedSeq(_)
SortedSeq(S) ==
  IF S = {} THEN <<>>
  ELSE LET m == CHOOSE x \in S : \A y \in S : x <= y
       IN <<m>> \o SortedSeq(S \ {m})

Range(s) == {s[i] : i \in 1..Len(s)}
Map(s, Op(_)) == [i \in 1..Len(s) |-> Op(s[i])]
Count(s, Test(_)) == Len(SelectSeq(s, Test))
Occurrences(s, e) == LET Is(x) == x = e IN Count(s, Is)

\* ------------------------------------------------------------------ SQLite
\* The text of the WHERE clause's right-hand side as the f-string builds it:
\* a quote, the grade's characters as they are, a quote, the semicolon.
query_text(selected_grade) == <<"'">> \o selected_grade \o <<"'", ";">>

\* SQLite's reading of a string literal whose opening quote is before
\* position i: two quotes in a row are one quote character of the value, a
\* single quote ends the literal, the end of the text inside it is an error.
RECURSIVE sqlite_string(_, _, _)
sqlite_string(text, i, acc) ==
  IF i > Len(text) THEN [ok |-> FALSE, value |-> <<>>, next |-> i]
  ELSE IF text[i] = "'"
       THEN IF i + 1 <= Len(text) /\ text[i + 1] = "'"
            THEN sqlite_string(text, i + 2, Append(acc, "'"))
            ELSE [ok |-> TRUE, value |-> acc, next |-> i + 1]
       ELSE sqlite_string(text, i + 1, Append(acc, text[i]))

\* WHERE grade = <text>: the statement is accepted when the literal ends and
\* only the semicolon follows it.
sqlite_where(text) ==
  LET lit == sqlite_string(text, 2, <<>>)
  IN [ok |-> lit.ok /\ SubSeq(text, lit.next, Len(text)) = <<";">>,
      value |-> lit.value]

\* pd.read_sql of "SELECT ... FROM loans50k WHERE grade = '<grade>';"
read_sql_where(rows, exists, selected_grade) ==
  LET w == sqlite_where(query_text(selected_grade))
      Match(r) == r.grade = w.value
  IN IF exists /\ w.ok
     THEN [err |-> FALSE, rows |-> SelectSeq(rows, Match)]
     ELSE [err |-> TRUE, rows |-> <<>>]

\* Mutant of sqlite_distinct: SELECT without DISTINCT.
sqlite_distinct_all(values, seen) == values

\* SELECT DISTINCT: each value once, in the order of first occurrence.
RECURSIVE sqlite_distinct(_, _)
sqlite_distinct(values, seen) ==
  IF values = <<>> THEN <<>>
  ELSE IF Head(values) \in seen
       THEN sqlite_distinct(Tail(values), seen)
       ELSE <<Head(values)>> \o sqlite_distinct(Tail(values), seen \cup {Head(values)})

GradeOf(r) == r.grade

\* pd.read_sql of "SELECT DISTINCT grade FROM loans50k;"
read_sql_grades(rows, exists) ==
  IF exists
  THEN [err |-> FALSE, rows |-> sqlite_distinct(Map(rows, GradeOf), {})]
  ELSE [err |-> TRUE, rows |-> <<>>]

\* pd.read_sql of "SELECT DISTINCT grade FROM loans50k LIMIT 1;"
read_sql_first_grade(rows, exists) ==
  LET all == read_sql_grades(rows, exists)
  IN [err |-> all.err, rows |-> SubSeq(all.rows, 1, IF Len(all.rows) > 0 THEN 1 ELSE 0)]

\* Mutant of store_after_read: the query consumes the first row.
store_after_read_pop(rows) == IF rows = <<>> THEN rows ELSE Tail(rows)

\* What a read query leaves in the table: SELECT writes nothing.
store_after_read(rows) == rows

\* ------------------------------------------------------------------ pandas
DaysInMonth(m) == IF m = 2 THEN 29 ELSE IF m \in {4, 6, 9, 11} THEN 30 ELSE 31

\* pd.to_datetime(..., errors="coerce"): the date, or NaT when the text is
\* not a date.
to_datetime(text) ==
  IF /\ Len(text) = 3
     /\ text[2] \in 1..12
     /\ text[3] \in 1..DaysInMonth(text[2])
  THEN text ELSE NaT

year(d) == d[1]

\* ------------------------------------------------------------------ charts
\* Graph 4: parse issue_d, drop the rows that do not parse, group by year,
\* sum loan_amnt; the placeholder when no row is left.
fig_time_series(df_time_series) ==
  LET Parsed(r) == [issue_d |-> to_datetime(r.issue_d), loan_amnt |-> r.loan_amnt]
      NotNaT(r) == r.issue_d # NaT
      df == SelectSeq(Map(df_time_series, Parsed), NotNaT)
      years == SortedSeq({year(r.issue_d) : r \in Range(df)})
      Total(y) == LET InYear(r) == year(r.issue_d) = y
                      Amount(r) == r.loan_amnt
                  IN SeqSum(Map(SelectSeq(df, InYear), Amount))
  IN IF df # <<>>
     THEN [chart |-> "line", title |-> "Total Loan Issuance Over Time",
           x |-> years, y |-> Map(years, Total)]
     ELSE [chart |-> "line", title |-> "Total Loan Issuance Over Time (No Data)",
           x |-> <<>>, y |-> <<>>]

\* A cell of groupby(year)["loan_status"].value_counts().unstack(): the count
\* of the (year, status) pair, NaN for a pair that does not occur.
unstack_cell(df, y, status) ==
  LET Pair(r) == year(r.earliest_cr_line) = y /\ r.loan_status = status
      n == Count(df, Pair)
  IN IF n > 0 THEN Num(n) ELSE NaN

\* Graph 5: parse earliest_cr_line, drop the rows that do not parse, count
\* each loan_status per year, plot the "Charged Off" column (added with zeros
\* when the table has no such column).
fig_credit_history(df_credit_history) ==
  LET Parsed(r) == [earliest_cr_line |-> to_datetime(r.earliest_cr_line),
                    loan_status |-> r.loan_status]
      NotNaT(r) == r.earliest_cr_line # NaT
      df == SelectSeq(Map(df_credit_history, Parsed), NotNaT)
      years == SortedSeq({year(r.earliest_cr_line) : r \in Range(df)})
      columns == {r.loan_status : r \in Range(df)}
      ChargedOff(y) == IF "Charged Off" \notin columns THEN Num(0)
                       ELSE unstack_cell(df, y, "Charged Off")
  IN IF df # <<>>
     THEN [chart |-> "line", title |-> "Loan Defaults vs. Borrower Credit History",
           x |-> years, y |-> Map(years, ChargedOff)]
     ELSE [chart |-> "line", title |-> "Loan Defaults vs. Borrower Credit History (No Data)",
           x |-> <<>>, y |-> <<>>]

\* The column projections of the five queries.
ColsDefault(r) == [loan_amnt |-> r.loan_amnt, loan_status |-> r.loan_status]
ColsInterest(r) == [loan_amnt |-> r.loan_amnt, int_rate |-> r.int_rate]
ColsPurpose(r) == [purpose |-> r.purpose]
ColsTimeSeries(r) == [issue_d |-> r.issue_d, loan_amnt |-> r.loan_amnt]
ColsCreditHistory(r) == [earliest_cr_line |-> r.earliest_cr_line, loan_status |-> r.loan_status]

fig_default(df_default, selected_grade) ==
  [chart |-> "histogram", grade |-> selected_grade, data |-> df_default]
fig_loan_int(df_interest, selected_grade) ==
  [chart |-> "density_heatmap", grade |-> selected_grade, data |-> df_interest]
fig_purpose(df_purpose, selected_grade) ==
  [chart |-> "pie", grade |-> selected_grade, data |-> df_purpose]

\* ------------------------------------------------------------------ handlers
NoCall ==
  [handler |-> "none", arg |-> None, outcome |-> "none", events |-> <<>>,
   options |-> <<>>, grade |-> None, dfs |-> <<>>, figs |-> <<>>]

Opened(events) == Occurrences(events, "connect")
Closed(events) == Occurrences(events, "close")

\* load_grades: connect, read the distinct grades, close, return the options.
\* A query that raises leaves before conn.close().
load_grades(rows, exists, dummy) ==
  LET df_grades == read_sql_grades(rows, exists)
      Option(g) == [label |-> g, value |-> g]
  IN IF df_grades.err
     THEN [NoCall EXCEPT !.handler = "load_grades", !.arg = dummy,
             !.outcome = "error", !.events = <<"connect", "raise">>]
     ELSE [NoCall EXCEPT !.handler = "load_grades", !.arg = dummy,
             !.outcome = "ok", !.events = <<"connect", "close", "return">>,
             !.options = Map(df_grades.rows, Option)]

\* The part of update_all_graphs after the grade is resolved (lines 72-160);
\* before is the connection events of the fallback.
update_main(rows, exists, arg, selected_grade, before) ==
  LET fetched == read_sql_where(rows, exists, selected_grade)
      df_default == Map(fetched.rows, ColsDefault)
      df_interest == Map(fetched.rows, ColsInterest)
      df_purpose == Map(fetched.rows, ColsPurpose)
      df_time_series == Map(fetched.rows, ColsTimeSeries)
      df_credit_history == Map(fetched.rows, ColsCreditHistory)
  IN IF fetched.err
     THEN [NoCall EXCEPT !.handler = "update_all_graphs", !.arg = arg,
             !.outcome = "error", !.grade = selected_grade,
             !.events = before \o <<"connect", "raise">>]
     ELSE [NoCall EXCEPT !.handler = "update_all_graphs", !.arg = arg,
             !.outcome = "ok", !.grade = selected_grade,
             !.events = before \o <<"connect", "close", "return">>,
             !.dfs = <<df_default, df_interest, df_purpose, df_time_series, df_credit_history>>,
             !.figs = <<fig_default(df_default, selected_grade),
                        fig_loan_int(df_interest, selected_grade),
                        fig_purpose(df_purpose, selected_grade),
                        fig_time_series(df_time_series),
                        fig_credit_history(df_credit_history)>>]

\* Whether the handler takes the "no grade selected" branch.
no_grade_selected(selected_grade) == selected_grade = None

\* Mutant of update_all_graphs: the fallback reads df_first before conn.close().
update_all_graphs_late_close(rows, exists, selected_grade) ==
  IF no_grade_selected(selected_grade)
  THEN LET df_first == read_sql_first_grade(rows, exists)
       IN IF df_first.err \/ df_first.rows = <<>>
          THEN [NoCall EXCEPT !.handler = "update_all_graphs", !.arg = selected_grade,
                  !.outcome = "error", !.events = <<"connect", "raise">>]
          ELSE update_main(rows, exists, selected_grade, df_first.rows[1],
                           <<"connect", "close">>)
  ELSE update_main(rows, exists, selected_grade, selected_grade, <<>>)

update_all_graphs(rows, exists, selected_grade) ==
  IF no_grade_selected(selected_grade)
  THEN LET df_first == read_sql_first_grade(rows, exists)
       IN IF df_first.err
          THEN [NoCall EXCEPT !.handler = "update_all_graphs", !.arg = selected_grade,
                  !.outcome = "error", !.events = <<"connect", "raise">>]
          ELSE IF df_first.rows = <<>>
          THEN [NoCall EXCEPT !.handler = "update_all_graphs", !.arg = selected_grade,
                  !.outcome = "error", !.events = <<"connect", "close", "raise">>]
          ELSE update_main(rows, exists, selected_grade, df_first.rows[1],
                           <<"connect", "close">>)
  ELSE update_main(rows, exists, selected_grade, selected_grade, <<>>)

\* ------------------------------------------------------------------ system
Init ==
  /\ tableExists \in BOOLEAN
  /\ loans50k \in Tables
  /\ tableExists = FALSE => loans50k = <<>>
  /\ initialRows = loans50k
  /\ openConns = 0
  /\ call = NoCall

Finish(result) ==
  /\ call' = result
  /\ openConns' = openConns + Opened(call'.events) - Closed(call'.events)
  /\ openConns' <= MaxOpenConns
  /\ loans50k' = store_after_read(loans50k)
  /\ UNCHANGED <<tableExists, initialRows>>

LoadGrades == \E dummy \in DummyInputs : Finish(load_grades(loans50k, tableExists, dummy))

UpdateAllGraphs ==
  \E selected_grade \in SelectedGrades :
    Finish(update_all_graphs(loans50k, tableExists, selected_grade))

Next == LoadGrades \/ UpdateAllGraphs

Spec == Init /\ [][Next]_vars

\* ------------------------------------------------------------------ claims
IsUpdate == call.handler = "update_all_graphs"
IsLoad == call.handler = "load_grades"
NoDataTimeSeries == "Total Loan Issuance Over Time (No Data)"
NoDataCreditHistory == "Loan Defaults vs. Borrower Credit History (No Data)"

\* The rows of the table whose grade column equals g as a literal string.
RowsOfGrade(g) == LET Eq(r) == r.grade = g IN SelectSeq(loans50k, Eq)
GradesInTable == {r.grade : r \in Range(loans50k)}
FiveFetches(rows) ==
  <<Map(rows, ColsDefault), Map(rows, ColsInterest), Map(rows, ColsPurpose),
    Map(rows, ColsTimeSeries), Map(rows, ColsCreditHistory)>>
IssueParses(r) == to_datetime(r.issue_d) # NaT
CreditLineParses(r) == to_datetime(r.earliest_cr_line) # NaT

\* C1: for every grade value present in the loans table, update_all_graphs
\* returns exactly five chart specifications and does not end in an error.
C1_FiveChartsForPresentGrade ==
  (IsUpdate /\ tableExists /\ call.arg \in GradesInTable)
    => (call.outcome = "ok" /\ Len(call.figs) = 5)

\* C2: a non-null grade that matches zero rows gives five charts and no
\* error, with the "(No Data)" placeholders for the issuance and the
\* credit-history chart; so do matching rows none of whose dates parse.
C2_EmptyGradeGivesPlaceholders ==
  (IsUpdate /\ tableExists /\ call.arg # None)
    => /\ RowsOfGrade(call.arg) = <<>>
            => /\ call.outcome = "ok" /\ Len(call.figs) = 5
               /\ call.figs[4].title = NoDataTimeSeries
               /\ call.figs[5].title = NoDataCreditHistory
       /\ (call.outcome = "ok" /\ SelectSeq(RowsOfGrade(call.arg), IssueParses) = <<>>)
            => call.figs[4].title = NoDataTimeSeries
       /\ (call.outcome = "ok" /\ SelectSeq(RowsOfGrade(call.arg), CreditLineParses) = <<>>)
            => call.figs[5].title = NoDataCreditHistory

\* C3: in the credit-history chart every year on the x axis carries the number
\* of rows of the grade that are "Charged Off" with that parsed year, 0 when
\* there is none, never a missing value.  Stated for the calls whose fetch
\* returned the rows of the grade (C5 is about the others).
C3_ChargedOffCountPerYear ==
  (IsUpdate /\ call.outcome = "ok"
     /\ call.dfs[5] = Map(RowsOfGrade(call.grade), ColsCreditHistory))
    => LET fig == call.figs[5]
           rows == SelectSeq(RowsOfGrade(call.grade), CreditLineParses)
       IN /\ Range(fig.x) = {year(r.earliest_cr_line) : r \in Range(rows)}
          /\ \A i \in 1..Len(fig.x) :
               LET Hit(r) == r.loan_status = "Charged Off"
                               /\ year(r.earliest_cr_line) = fig.x[i]
               IN fig.y[i] = Num(Count(rows, Hit))

\* C4: the issuance chart has exactly one point per year in which some row of
\* the grade has a parseable issue_d, its y is the sum of loan_amnt over those
\* rows, and the y values add up to the loan_amnt of all parseable rows.
C4_IssuanceSumPerYear ==
  (IsUpdate /\ call.outcome = "ok")
    => LET fig == call.figs[4]
           rows == SelectSeq(RowsOfGrade(call.grade), IssueParses)
           Amount(r) == r.loan_amnt
       IN /\ Range(fig.x) = {year(r.issue_d) : r \in Range(rows)}
          /\ Len(fig.x) = Cardinality(Range(fig.x))
          /\ Len(fig.y) = Len(fig.x)
          /\ \A i \in 1..Len(fig.x) :
               LET InYear(r) == year(r.issue_d) = fig.x[i]
               IN fig.y[i] = SeqSum(Map(SelectSeq(rows, InYear), Amount))
          /\ SeqSum(fig.y) = SeqSum(Map(rows, Amount))

\* C5: for every grade value passed, quotes included, each of the five
\* fetches returns exactly the rows whose grade equals the value as a literal.
C5_GradeIsALiteral ==
  (IsUpdate /\ tableExists /\ call.arg # None)
    => (call.outcome = "ok" /\ call.dfs = FiveFetches(RowsOfGrade(call.arg)))

\* C6: with no grade selected, null or the empty string, the grade used is
\* the first of the distinct grades and all five charts are those of its
\* rows; a non-empty selected grade is used unchanged.
C6_DefaultGradeWhenNoneOrEmpty ==
  (IsUpdate /\ tableExists /\ loans50k # <<>>)
    => IF call.arg \in {None, <<>>}
       THEN LET first == sqlite_distinct(Map(loans50k, GradeOf), {})[1]
            IN /\ call.grade = first
               /\ call.outcome = "ok"
               /\ call.dfs = FiveFetches(RowsOfGrade(first))
       ELSE call.grade = call.arg

\* C7: every connection a handler opens is closed before the handler returns
\* or fails; none stays open after a handling cycle.
C7_ConnectionsClosed ==
  /\ Opened(call.events) = Closed(call.events)
  /\ openConns = 0

\* C8: load_grades returns one option per distinct grade of the table: no
\* value twice, every grade of the table, label equal to value, whatever the
\* dummy input.
C8_OptionsAreDistinctGrades ==
  (IsLoad /\ tableExists)
    => /\ call.outcome = "ok"
       /\ {o.value : o \in Range(call.options)} = GradesInTable
       /\ Len(call.options) = Cardinality(GradesInTable)
       /\ \A i \in 1..Len(call.options) : call.options[i].label = call.options[i].value
C8_Witness ==
  /\ IsLoad /\ call.outcome = "ok" /\ Len(call.options) = 1
  /\ Len(loans50k) = 2 /\ loans50k[1] # loans50k[2]

C10_EmptyTableFallbackFails ==
  (IsUpdate /\ call.arg = None /\ tableExists /\ loans50k = <<>>)
    => /\ call.outcome = "error"
       /\ call.figs = <<>>
       /\ call.events = <<"connect", "close", "raise">>
C10_Witness ==
  /\ IsUpdate /\ call.arg = None /\ tableExists /\ loans50k = <<>>
  /\ call.outcome = "error" /\ openConns = 0

====
